---- MODULE Spec2Model ----
(***************************************************************************)
(* JSON language-pack key comparison: key extraction (extract_keys), the   *)
(* set comparison (compare_json_keys / compare_json_files), the command    *)
(* line front end (main_backup.py) and the GUI front end (src/main.py).    *)
(*                                                                         *)
(* A Python str is a sequence of code points, so that f"{prefix}.{key}"    *)
(* is a concatenation and sorted() is the code point order.                *)
(***************************************************************************)
EXTENDS Integers, Sequences, FiniteSets, TLC

\* ------------------------------------------------------------------ bounds
\* largest number of object entries (nested ones included) of a document
\* given to extract_keys alone
MaxSize == 3

\* largest number of object entries of a file read by the command line
MaxFileSize == 3

\* ----------------------------------------------------------------- strings
\* the code point of '.', the separator of f"{prefix}.{key}"
Dot == 46

\* the object keys the documents are built from: "", "a", "b", "a.b"
KeyNames == { <<>>, <<97>>, <<98>>, <<97, 46, 98>> }

\* ------------------------------------------------------------- JSON values
\* what json.load returns: a dict, a list or a scalar
Node(kind, fields, items) == [kind |-> kind, fields |-> fields, items |-> items]

Scalar == Node("scalar", <<>>, <<>>)

List(items) == Node("list", <<>>, items)

Dict(fields) == Node("dict", fields, <<>>)

\* isinstance(value, dict)
IsDict(value) == value.kind = "dict"

\* the values that are not dicts: a scalar, [1, 2], [{"b": 1}]
Leaves == { Scalar, List(<<Scalar, Scalar>>), List(<<Dict(<<98>> :> Scalar)>>) }

\* number of entries of a value, nested ones included
RECURSIVE Size(_)
Size(value) ==
  IF IsDict(value)
    THEN LET f == value.fields
             RECURSIVE Sum(_)
             Sum(ks) == IF ks = {} THEN 0
                        ELSE LET k == CHOOSE x \in ks : TRUE
                             IN 1 + Size(f[k]) + Sum(ks \ {k})
         IN Sum(DOMAIN f)
    ELSE 0

\* the field maps over the keys ks with at most n entries, nested ones
\* included, the nested objects having their keys in names and the values that
\* are not objects being in leaves
RECURSIVE FieldMaps(_, _, _, _)
FieldMaps(names, leaves, ks, n) ==
  IF ks = {} \/ n = 0
    THEN { <<>> }
    ELSE LET k == CHOOSE x \in ks : TRUE
             rest == ks \ {k}
             values == leaves \cup { Dict(f) : f \in FieldMaps(names, leaves, names, n - 1) }
         IN FieldMaps(names, leaves, rest, n) \cup
            UNION { { (k :> v) @@ f : f \in FieldMaps(names, leaves, rest, n - 1 - Size(v)) }
                    : v \in values }

\* the JSON documents whose top level is an object, of at most n entries
Documents(n) == { Dict(f) : f \in FieldMaps(KeyNames, Leaves, KeyNames, n) }

\* the object keys of the files given to the front ends: "a", "b"
FileKeyNames == { <<97>>, <<98>> }

\* the values of the files that are not dicts: a scalar, [{"b": 1}]
FileLeaves == { Scalar, List(<<Dict(<<98>> :> Scalar)>>) }

\* what json.load can return for a file of the command line: an object of at
\* most MaxFileSize entries, a scalar or an array
FileContents ==
  { Dict(f) : f \in FieldMaps(FileKeyNames, FileLeaves, FileKeyNames, MaxFileSize) }
    \cup { Scalar, List(<<>>) }

\* ------------------------------------------------------------ extract_keys
\* full_key = f"{prefix}.{key}" if prefix else key
full_key(prefix, key) == IF prefix # <<>> THEN prefix \o <<Dot>> \o key ELSE key

\* extract_keys with an empty dict taken for a leaf
RECURSIVE extract_keys_empty_leaf(_, _)
extract_keys_empty_leaf(data, prefix) ==
  UNION { IF IsDict(data.fields[key]) /\ DOMAIN data.fields[key].fields # {}
            THEN extract_keys_empty_leaf(data.fields[key], full_key(prefix, key))
            ELSE { full_key(prefix, key) }
          : key \in DOMAIN data.fields }

\* extract_keys descending into the dicts of a list
RECURSIVE extract_keys_into_lists(_, _)
extract_keys_into_lists(data, prefix) ==
  UNION { LET value == data.fields[key]
              dicts == { i \in 1..Len(value.items) : IsDict(value.items[i]) }
          IN IF IsDict(value)
               THEN extract_keys_into_lists(value, full_key(prefix, key))
               ELSE IF value.kind = "list" /\ dicts # {}
                 THEN UNION { extract_keys_into_lists(value.items[i], full_key(prefix, key))
                              : i \in dicts }
                 ELSE { full_key(prefix, key) }
          : key \in DOMAIN data.fields }

RECURSIVE extract_keys(_, _)
extract_keys(data, prefix) ==
  UNION { IF IsDict(data.fields[key])
            THEN extract_keys(data.fields[key], full_key(prefix, key))
            ELSE { full_key(prefix, key) }
          : key \in DOMAIN data.fields }

\* -------------------------------------------------------------- comparison
\* only_in_file1 = keys1 - keys2
OnlyInFile1(keys1, keys2) == keys1 \ keys2

\* only_in_file2 = keys1 - keys2, the difference taken the wrong way round
OnlyInFile2_swapped(keys1, keys2) == keys1 \ keys2

\* only_in_file2 = keys2 - keys1
OnlyInFile2(keys1, keys2) == keys2 \ keys1

\* common_keys = keys1 | keys2, a union for the intersection
CommonKeys_union(keys1, keys2) == keys1 \cup keys2

\* common_keys = keys1 & keys2
CommonKeys(keys1, keys2) == keys1 \cap keys2

\* ------------------------------------------------------------------ report
\* str < str of Python: the order of the code points, a proper prefix first
StrLess(s, t) ==
  \E i \in 1..(Len(s) + 1) :
    /\ \A j \in 1..(i - 1) : j <= Len(t) /\ s[j] = t[j]
    /\ \/ i = Len(s) + 1 /\ Len(t) >= i
       \/ i <= Len(s) /\ i <= Len(t) /\ s[i] < t[i]

\* the orders in which a for loop can iterate over a set
IterationOrders(S) ==
  { order \in [1..Cardinality(S) -> S] :
      \A i, j \in 1..Cardinality(S) : i # j => order[i] # order[j] }

IsSorted(order) ==
  \A i, j \in 1..Len(order) : i < j => StrLess(order[i], order[j])

\* sorted(S)
sorted(S) == CHOOSE order \in IterationOrders(S) : IsSorted(order)

\* one line of text: what it is, the key or the file it names, the number
\* it shows
Line(tag, key, n) == [tag |-> tag, key |-> key, n |-> n]

Text(tag) == Line(tag, <<>>, 0)

KeyLines(order) == [i \in 1..Len(order) |-> Line("key", order[i], 0)]

\* the title and the statistics block, common to both reports
Statistics(only_in_file1, only_in_file2, common_keys) ==
  << Text("title"), Text("rule="), Text(""),
     Text("statistics"),
     Line("total", <<>>, Cardinality(only_in_file1) + Cardinality(common_keys)),
     Line("total", <<>>, Cardinality(only_in_file2) + Cardinality(common_keys)),
     Line("common", <<>>, Cardinality(common_keys)),
     Line("only", <<>>, Cardinality(only_in_file1)),
     Line("only", <<>>, Cardinality(only_in_file2)),
     Text("") >>

\* output_lines of print_comparison_results, the two sets iterated in the
\* orders order1 and order2
print_lines(only_in_file1, only_in_file2, common_keys, order1, order2) ==
  Statistics(only_in_file1, only_in_file2, common_keys)
    \o (IF only_in_file1 # {}
          THEN <<Text("only_in_file1"), Text("rule-")>> \o KeyLines(order1) \o <<Text("")>>
          ELSE <<>>)
    \o (IF only_in_file2 # {}
          THEN <<Text("only_in_file2"), Text("rule-")>> \o KeyLines(order2) \o <<Text("")>>
          ELSE <<>>)

\* report_lines of save_comparison_report
report_lines(only_in_file1, only_in_file2, common_keys) ==
  Statistics(only_in_file1, only_in_file2, common_keys)
    \o (IF only_in_file1 # {}
          THEN <<Text("only_in_file1"), Text("rule-")>> \o KeyLines(sorted(only_in_file1))
                 \o <<Text("")>>
          ELSE <<>>)
    \o (IF only_in_file2 # {}
          THEN <<Text("only_in_file2"), Text("rule-")>> \o KeyLines(sorted(only_in_file2))
          ELSE <<>>)

\* the exit status of main once the report is out
ExitStatus_first_only(only_in_file1, only_in_file2) ==
  IF only_in_file1 # {} THEN 1 ELSE 0

ExitStatus(only_in_file1, only_in_file2) ==
  IF only_in_file1 # {} \/ only_in_file2 # {} THEN 1 ELSE 0

\* ------------------------------------------------------------------- state
VARIABLES
  x_pc,     \* extract_keys alone: "call" before the call, "return" after it
  x_data,   \* its argument
  x_keys,   \* its result
  program,        \* the command line run: "main_backup" or "check_language_packs"
  output_file,    \* args.output is given
  pc,             \* the position of the run
  opened,         \* the files (1, 2) that open() was called on
  bound,          \* the local variables that are bound
  data1, data2,
  keys1, keys2,
  only_in_file1, only_in_file2, common_keys,
  output_lines,
  console,        \* the lines printed
  written,        \* the lines written to args.output
  exit_code,      \* the argument of sys.exit, 0 at the end of main, -1 before
  disk,             \* the GUI: what json.load makes of each file that can be picked
  file1_path, file2_path,    \* self.file1_path, self.file2_path
  file1_ref, file2_ref,      \* the value and the color of the two labels
  progress_visible,          \* progress_ref.current.visible
  result_controls,           \* result_ref.current.controls
  page,             \* what the window shows: the controls as of the last page.update()
  snack_bar,        \* the last snack bar shown
  saved,            \* the lines of the last report written by save_comparison_report
  g_pc              \* the position of compare_files: "idle", "try", "finally"

xvars == <<x_pc, x_data, x_keys>>

gvars == <<disk, file1_path, file2_path, file1_ref, file2_ref, progress_visible,
           result_controls, page, snack_bar, saved, g_pc>>

cvars == <<program, output_file, pc, opened, bound, data1, data2, keys1, keys2,
           only_in_file1, only_in_file2, common_keys, output_lines, console,
           written, exit_code>>

vars == <<xvars, cvars, gvars>>

\* no command line run
NoRun ==
  /\ program = "none"
  /\ output_file = FALSE
  /\ pc = "none"
  /\ opened = {}
  /\ bound = {}
  /\ data1 = Scalar
  /\ data2 = Scalar
  /\ keys1 = {}
  /\ keys2 = {}
  /\ only_in_file1 = {}
  /\ only_in_file2 = {}
  /\ common_keys = {}
  /\ output_lines = <<>>
  /\ console = <<>>
  /\ written = <<>>
  /\ exit_code = -1

\* no window
NoGui ==
  /\ disk = <<>>
  /\ file1_path = "None"
  /\ file2_path = "None"
  /\ file1_ref = <<>>
  /\ file2_ref = <<>>
  /\ progress_visible = FALSE
  /\ result_controls = <<>>
  /\ page = <<>>
  /\ snack_bar = "none"
  /\ saved = <<>>
  /\ g_pc = "none"

\* no call of extract_keys alone
NoCall ==
  /\ x_pc = "none"
  /\ x_data = Dict(<<>>)
  /\ x_keys = {}

\* ------------------------------------------- extract_keys as a computation
InitExtract ==
  /\ x_pc = "call"
  /\ x_data \in Documents(MaxSize)
  /\ x_keys = {}
  /\ NoRun
  /\ NoGui

CallExtractKeys ==
  /\ x_pc = "call"
  /\ x_keys' = extract_keys(x_data, <<>>)
  /\ x_pc' = "return"
  /\ UNCHANGED <<x_data, cvars, gvars>>

NextExtract == CallExtractKeys

SpecExtract == InitExtract /\ [][NextExtract]_vars

\* ------------------------------------------------------- the command line
\* after parser.parse_args(): two positional files, --output given or not
InitCli ==
  /\ NoCall
  /\ NoGui
  /\ program \in {"main_backup", "check_language_packs"}
  /\ output_file \in BOOLEAN
  /\ program = "check_language_packs" => output_file = FALSE
  /\ pc = "exists"
  /\ opened = {}
  /\ bound = {}
  /\ data1 = Scalar
  /\ data2 = Scalar
  /\ keys1 = {}
  /\ keys2 = {}
  /\ only_in_file1 = {}
  /\ only_in_file2 = {}
  /\ common_keys = {}
  /\ output_lines = <<>>
  /\ console = <<>>
  /\ written = <<>>
  /\ exit_code = -1

\* sys.exit(code) after the line msg was printed
Exit(msg, code) ==
  /\ console' = Append(console, msg)
  /\ exit_code' = code
  /\ pc' = "exited"

\* main_backup.main: the first path that does not exist ends the run;
\* check_language_packs.main: every path that does not exist is reported and
\* the run goes on
ExistsCheck ==
  /\ pc = "exists"
  /\ \E missing \in SUBSET {1, 2} :
       IF program = "main_backup"
         THEN IF missing # {}
                THEN /\ Exit(Line("not_exists", <<>>, IF 1 \in missing THEN 1 ELSE 2), 1)
                     /\ UNCHANGED <<program, output_file, opened, bound, data1, data2,
                                     keys1, keys2, only_in_file1, only_in_file2,
                                     common_keys, output_lines, written>>
                ELSE /\ pc' = "load1"
                     /\ UNCHANGED <<program, output_file, opened, bound, data1, data2,
                                     keys1, keys2, only_in_file1, only_in_file2,
                                     common_keys, output_lines, written, console,
                                     exit_code>>
         ELSE /\ console' = (IF 1 \in missing THEN <<Line("not_exists", <<>>, 1)>> ELSE <<>>)
                             \o (IF 2 \in missing THEN <<Line("not_exists", <<>>, 2)>> ELSE <<>>)
              /\ pc' = "load1"
              /\ UNCHANGED <<program, output_file, opened, bound, data1, data2,
                              keys1, keys2, only_in_file1, only_in_file2,
                              common_keys, output_lines, written, exit_code>>
  /\ UNCHANGED <<xvars, gvars>>

\* the exceptions load_json_file handles
LoadErrors == {"FileNotFoundError", "JSONDecodeError", "Exception"}

\* load_json_file that reports the error and returns an empty dict
LoadFile1_goes_on ==
  /\ pc = "load1"
  /\ opened' = opened \cup {1}
  /\ \/ \E content \in FileContents :
          /\ data1' = content
          /\ UNCHANGED console
     \/ \E error \in LoadErrors :
          /\ data1' = Dict(<<>>)
          /\ console' = Append(console, Line(error, <<>>, 1))
  /\ bound' = bound \cup {"data1"}
  /\ pc' = "load2"
  /\ UNCHANGED <<program, output_file, data2, keys1, keys2, only_in_file1,
                  only_in_file2, common_keys, output_lines, written, exit_code, xvars, gvars>>

\* data1 = load_json_file(file1)
LoadFile1 ==
  /\ pc = "load1"
  /\ opened' = opened \cup {1}
  /\ \/ \E content \in FileContents :
          /\ data1' = content
          /\ bound' = bound \cup {"data1"}
          /\ pc' = "load2"
          /\ UNCHANGED <<console, exit_code>>
     \/ \E error \in LoadErrors :
          /\ Exit(Line(error, <<>>, 1), 1)
          /\ UNCHANGED <<data1, bound>>
  /\ UNCHANGED <<program, output_file, data2, keys1, keys2, only_in_file1,
                  only_in_file2, common_keys, output_lines, written, xvars, gvars>>

\* data2 = load_json_file(file2)
LoadFile2 ==
  /\ pc = "load2"
  /\ opened' = opened \cup {2}
  /\ \/ \E content \in FileContents :
          /\ data2' = content
          /\ bound' = bound \cup {"data2"}
          /\ pc' = "extract1"
          /\ UNCHANGED <<console, exit_code>>
     \/ \E error \in LoadErrors :
          /\ Exit(Line(error, <<>>, 2), 1)
          /\ UNCHANGED <<data2, bound>>
  /\ UNCHANGED <<program, output_file, data1, keys1, keys2, only_in_file1,
                  only_in_file2, common_keys, output_lines, written, xvars, gvars>>

\* keys1 = extract_keys(data1); data1.items() raises AttributeError when the
\* top level is not an object, which main catches with except Exception
ExtractKeys1 ==
  /\ pc = "extract1"
  /\ IF IsDict(data1)
       THEN /\ keys1' = extract_keys(data1, <<>>)
            /\ bound' = bound \cup {"keys1"}
            /\ pc' = "extract2"
            /\ UNCHANGED <<console, exit_code>>
       ELSE /\ Exit(Text("compare_error"), 1)
            /\ UNCHANGED <<keys1, bound>>
  /\ UNCHANGED <<program, output_file, opened, data1, data2, keys2, only_in_file1,
                  only_in_file2, common_keys, output_lines, written, xvars, gvars>>

\* keys2 = extract_keys(data2)
ExtractKeys2 ==
  /\ pc = "extract2"
  /\ IF IsDict(data2)
       THEN /\ keys2' = extract_keys(data2, <<>>)
            /\ bound' = bound \cup {"keys2"}
            /\ pc' = "difference"
            /\ UNCHANGED <<console, exit_code>>
       ELSE /\ Exit(Text("compare_error"), 1)
            /\ UNCHANGED <<keys2, bound>>
  /\ UNCHANGED <<program, output_file, opened, data1, data2, keys1, only_in_file1,
                  only_in_file2, common_keys, output_lines, written, xvars, gvars>>

\* the three set operations and the return of compare_json_keys;
\* check_language_packs.main ends here
Difference ==
  /\ pc = "difference"
  /\ only_in_file1' = OnlyInFile1(keys1, keys2)
  /\ only_in_file2' = OnlyInFile2(keys1, keys2)
  /\ common_keys' = CommonKeys(keys1, keys2)
  /\ bound' = bound \cup {"only_in_file1", "only_in_file2", "common_keys"}
  /\ pc' = IF program = "main_backup" THEN "print" ELSE "returned"
  /\ UNCHANGED <<program, output_file, opened, data1, data2, keys1, keys2,
                  output_lines, console, written, exit_code, xvars, gvars>>

\* print_comparison_results up to the end of the console output
PrintResults ==
  /\ pc = "print"
  /\ \E order1 \in IterationOrders(only_in_file1) :
     \E order2 \in IterationOrders(only_in_file2) :
       /\ output_lines' = print_lines(only_in_file1, only_in_file2, common_keys,
                                       order1, order2)
       /\ console' = console \o output_lines'
  /\ bound' = bound \cup {"output_lines"}
  /\ pc' = IF output_file THEN "write" ELSE "status"
  /\ UNCHANGED <<program, output_file, opened, data1, data2, keys1, keys2,
                  only_in_file1, only_in_file2, common_keys, written, exit_code, xvars, gvars>>

\* the write to args.output with a failure that ends the run
WriteReport_fatal ==
  /\ pc = "write"
  /\ \/ /\ written' = output_lines
        /\ console' = Append(console, Text("saved"))
        /\ pc' = "status"
        /\ UNCHANGED exit_code
     \/ /\ Exit(Text("warning"), 1)
        /\ UNCHANGED written
  /\ UNCHANGED <<program, output_file, opened, bound, data1, data2, keys1, keys2,
                  only_in_file1, only_in_file2, common_keys, output_lines, xvars, gvars>>

\* print_comparison_results: the write to args.output; it succeeds, or open()
\* raises and the except branch prints the warning
WriteReport ==
  /\ pc = "write"
  /\ \/ /\ written' = output_lines
        /\ console' = Append(console, Text("saved"))
     \/ /\ console' = Append(console, Text("warning"))
        /\ UNCHANGED written
  /\ pc' = "status"
  /\ UNCHANGED <<program, output_file, opened, bound, data1, data2, keys1, keys2,
                  only_in_file1, only_in_file2, common_keys, output_lines,
                  exit_code, xvars, gvars>>

\* if only_in_file1 or only_in_file2: sys.exit(1), else the end of main
ExitWithStatus ==
  /\ pc = "status"
  /\ exit_code' = ExitStatus(only_in_file1, only_in_file2)
  /\ pc' = "exited"
  /\ UNCHANGED <<program, output_file, opened, bound, data1, data2, keys1, keys2,
                  only_in_file1, only_in_file2, common_keys, output_lines, console,
                  written, xvars, gvars>>

NextCli ==
  \/ ExistsCheck
  \/ LoadFile1
  \/ LoadFile2
  \/ ExtractKeys1
  \/ ExtractKeys2
  \/ Difference
  \/ PrintResults
  \/ WriteReport
  \/ ExitWithStatus

SpecCli == InitCli /\ [][NextCli]_vars

\* ----------------------------------------------------------------- the GUI
\* the files the file picker offers
GuiPaths == {"en.json", "zh.json"}

\* json.load raises, or the file cannot be opened
Unreadable == Node("unreadable", <<>>, <<>>)

\* what a file holds: {"a": 1, "b": 1}, {"a": {"b": 1}}, {"b": [1, 1], "a.b": 1},
\* [] or nothing that loads
GuiContents ==
  { Dict((<<97>> :> Scalar) @@ (<<98>> :> Scalar)),
    Dict(<<97>> :> Dict(<<98>> :> Scalar)),
    Dict((<<98>> :> List(<<Scalar, Scalar>>)) @@ (<<97, 46, 98>> :> Scalar)),
    List(<<>>),
    Unreadable }

\* a control of the window or a label: what it is, the file names, the keys
\* and the numbers it shows
Control(tag, names, keys, counts) ==
  [tag |-> tag, names |-> names, keys |-> keys, counts |-> counts]

Label(value, color) == [value |-> value, color |-> color]

\* the state of the controls that page.update() sends to the window
Shown(f1, f2, progress, controls) ==
  [file1_ref |-> f1, file2_ref |-> f2, progress_visible |-> progress,
   result_controls |-> controls]

\* load_json_from_file(file_path) returns: open(None) raises as well
Loads(file_path) == file_path # "None" /\ disk[file_path] # Unreadable

\* compare_json_files returns: both files load and both are objects at the
\* top level (data.items() raises otherwise)
Compares(path1, path2) ==
  /\ Loads(path1) /\ Loads(path2)
  /\ IsDict(disk[path1]) /\ IsDict(disk[path2])

\* the controls compare_files builds from the three sets
ResultControls(name1, name2, only1, only2, common) ==
  << Control("stats", <<name1, name2>>, <<>>,
             << Cardinality(only1) + Cardinality(common),
                Cardinality(only2) + Cardinality(common),
                Cardinality(common), Cardinality(only1), Cardinality(only2) >>) >>
    \o (IF only1 # {}
          THEN <<Control("only_in_file1", <<name1>>, sorted(only1), <<Cardinality(only1)>>)>>
          ELSE <<>>)
    \o (IF only2 # {}
          THEN <<Control("only_in_file2", <<name2>>, sorted(only2), <<Cardinality(only2)>>)>>
          ELSE <<>>)
    \o (IF only1 = {} /\ only2 = {}
          THEN <<Control("match", <<>>, <<>>, <<>>)>>
          ELSE <<>>)

\* the controls of the comparison of the two files
ComparedControls(path1, path2) ==
  LET k1 == extract_keys(disk[path1], <<>>)
      k2 == extract_keys(disk[path2], <<>>)
  IN ResultControls(path1, path2, OnlyInFile1(k1, k2), OnlyInFile2(k1, k2),
                    CommonKeys(k1, k2))

\* JSONComparatorApp() and main(page): no path, the progress bar hidden, no
\* result
InitGui ==
  /\ NoCall
  /\ NoRun
  /\ disk \in [GuiPaths -> GuiContents]
  /\ file1_path = "None"
  /\ file2_path = "None"
  /\ file1_ref = Label("no_file", "default")
  /\ file2_ref = Label("no_file", "default")
  /\ progress_visible = FALSE
  /\ result_controls = <<>>
  /\ page = Shown(file1_ref, file2_ref, FALSE, <<>>)
  /\ snack_bar = "none"
  /\ saved = <<>>
  /\ g_pc = "idle"

\* on_file1_selected(e) with a cancelled pick that forgets the stored path
on_file1_selected_forgets ==
  /\ g_pc = "idle"
  /\ \E files \in GuiPaths \cup {"None"} :
       IF files # "None"
         THEN /\ file1_path' = files
              /\ file1_ref' = Label(files, "GREEN")
         ELSE /\ file1_ref' = Label("not_selected", "RED")
              /\ file1_path' = "None"
  /\ page' = Shown(file1_ref', file2_ref, progress_visible, result_controls)
  /\ UNCHANGED <<disk, file2_path, file2_ref, progress_visible, result_controls,
                  snack_bar, saved, g_pc, xvars, cvars>>

\* on_file1_selected(e): e.files is a file, or empty when the pick is cancelled
on_file1_selected ==
  /\ g_pc = "idle"
  /\ \E files \in GuiPaths \cup {"None"} :
       IF files # "None"
         THEN /\ file1_path' = files
              /\ file1_ref' = Label(files, "GREEN")
         ELSE /\ file1_ref' = Label("not_selected", "RED")
              /\ UNCHANGED file1_path
  /\ page' = Shown(file1_ref', file2_ref, progress_visible, result_controls)
  /\ UNCHANGED <<disk, file2_path, file2_ref, progress_visible, result_controls,
                  snack_bar, saved, g_pc, xvars, cvars>>

\* on_file2_selected(e)
on_file2_selected ==
  /\ g_pc = "idle"
  /\ \E files \in GuiPaths \cup {"None"} :
       IF files # "None"
         THEN /\ file2_path' = files
              /\ file2_ref' = Label(files, "GREEN")
         ELSE /\ file2_ref' = Label("not_selected", "RED")
              /\ UNCHANGED file2_path
  /\ page' = Shown(file1_ref, file2_ref', progress_visible, result_controls)
  /\ UNCHANGED <<disk, file1_path, file1_ref, progress_visible, result_controls,
                  snack_bar, saved, g_pc, xvars, cvars>>

\* on_save_result(e) with a path: the comparison is run again and the report
\* written, the write failing or not; without a path nothing happens
on_save_result ==
  /\ g_pc = "idle"
  /\ \E e_path \in BOOLEAN, write_ok \in BOOLEAN :
       IF e_path
         THEN IF Compares(file1_path, file2_path) /\ write_ok
                THEN LET k1 == extract_keys(disk[file1_path], <<>>)
                         k2 == extract_keys(disk[file2_path], <<>>)
                     IN /\ saved' = report_lines(OnlyInFile1(k1, k2), OnlyInFile2(k1, k2),
                                                  CommonKeys(k1, k2))
                        /\ snack_bar' = "saved"
                ELSE /\ snack_bar' = "save_failed"
                     /\ UNCHANGED saved
         ELSE UNCHANGED <<saved, snack_bar>>
  /\ UNCHANGED <<disk, file1_path, file2_path, file1_ref, file2_ref, progress_visible,
                  result_controls, page, g_pc, xvars, cvars>>

\* compare_files(e) without two files: the snack bar and return
compare_files_rejected ==
  /\ g_pc = "idle"
  /\ file1_path = "None" \/ file2_path = "None"
  /\ snack_bar' = "select_two_files"
  /\ UNCHANGED <<disk, file1_path, file2_path, file1_ref, file2_ref, progress_visible,
                  result_controls, page, saved, g_pc, xvars, cvars>>

\* compare_files(e) with two files: the progress bar is shown
compare_files_begin ==
  /\ g_pc = "idle"
  /\ file1_path # "None" /\ file2_path # "None"
  /\ progress_visible' = TRUE
  /\ page' = Shown(file1_ref, file2_ref, TRUE, result_controls)
  /\ g_pc' = "try"
  /\ UNCHANGED <<disk, file1_path, file2_path, file1_ref, file2_ref, result_controls,
                  snack_bar, saved, xvars, cvars>>

\* the try block with result_ref.current.controls.clear() moved before the
\* comparison
compare_files_try_clears_first ==
  /\ g_pc = "try"
  /\ IF Compares(file1_path, file2_path)
       THEN /\ result_controls' = ComparedControls(file1_path, file2_path)
            /\ UNCHANGED snack_bar
       ELSE /\ snack_bar' = "compare_failed"
            /\ result_controls' = <<>>
  /\ g_pc' = "finally"
  /\ UNCHANGED <<disk, file1_path, file2_path, file1_ref, file2_ref, progress_visible,
                  page, saved, xvars, cvars>>

\* the try block of compare_files: the comparison, then the controls are
\* cleared and built anew; an exception of the comparison shows a snack bar
compare_files_try ==
  /\ g_pc = "try"
  /\ IF Compares(file1_path, file2_path)
       THEN /\ result_controls' = ComparedControls(file1_path, file2_path)
            /\ UNCHANGED snack_bar
       ELSE /\ snack_bar' = "compare_failed"
            /\ UNCHANGED result_controls
  /\ g_pc' = "finally"
  /\ UNCHANGED <<disk, file1_path, file2_path, file1_ref, file2_ref, progress_visible,
                  page, saved, xvars, cvars>>

\* the progress bar hidden at the end of the try block instead of in a
\* finally block: it stays when the comparison raised
compare_files_finally_after_success ==
  /\ g_pc = "finally"
  /\ progress_visible' = ~ Compares(file1_path, file2_path)
  /\ page' = Shown(file1_ref, file2_ref, progress_visible', result_controls)
  /\ g_pc' = "idle"
  /\ UNCHANGED <<disk, file1_path, file2_path, file1_ref, file2_ref, result_controls,
                  snack_bar, saved, xvars, cvars>>

\* the finally block of compare_files: the progress bar is hidden and the
\* page updated
compare_files_finally ==
  /\ g_pc = "finally"
  /\ progress_visible' = FALSE
  /\ page' = Shown(file1_ref, file2_ref, FALSE, result_controls)
  /\ g_pc' = "idle"
  /\ UNCHANGED <<disk, file1_path, file2_path, file1_ref, file2_ref, result_controls,
                  snack_bar, saved, xvars, cvars>>

NextGui ==
  \/ on_file1_selected
  \/ on_file2_selected
  \/ on_save_result
  \/ compare_files_rejected
  \/ compare_files_begin
  \/ compare_files_try
  \/ compare_files_finally

SpecGui == InitGui /\ [][NextGui]_vars

\* ------------------------------------------------- properties: extraction
\* the paths (sequences of object keys) from the root to the values that are
\* not objects
RECURSIVE LeafPaths(_)
LeafPaths(value) ==
  UNION { IF IsDict(value.fields[k])
            THEN { <<k>> \o p : p \in LeafPaths(value.fields[k]) }
            ELSE { <<k>> }
          : k \in DOMAIN value.fields }

\* the keys of a path joined with '.'
RECURSIVE JoinDots(_)
JoinDots(path) ==
  IF Len(path) = 1 THEN path[1] ELSE path[1] \o <<Dot>> \o JoinDots(Tail(path))

\* the value without its entries whose value is an empty object, at any depth
RECURSIVE WithoutEmptyObjects(_)
WithoutEmptyObjects(value) ==
  IF IsDict(value)
    THEN Dict([k \in { j \in DOMAIN value.fields : value.fields[j] # Dict(<<>>) }
                 |-> WithoutEmptyObjects(value.fields[k])])
    ELSE value

\* the value with every array below an object key replaced by a scalar
RECURSIVE ListsAsScalars(_)
ListsAsScalars(value) ==
  IF IsDict(value)
    THEN Dict([k \in DOMAIN value.fields |-> ListsAsScalars(value.fields[k])])
    ELSE Scalar

\* the paths of LeafPaths that end in an array
ListPaths(value) ==
  { p \in LeafPaths(value) :
      LET RECURSIVE At(_, _)
          At(v, q) == IF q = <<>> THEN v ELSE At(v.fields[Head(q)], Tail(q))
      IN At(value, p).kind = "list" }

\* C1: extract_keys(T, "") is exactly the set of the dot-joined key paths of
\* the leaves of T, one entry per leaf and nothing else.
C1_OneEntryPerLeaf ==
  x_pc = "return" =>
    /\ x_keys = { JoinDots(p) : p \in LeafPaths(x_data) }
    /\ Cardinality(x_keys) = Cardinality(LeafPaths(x_data))

\* C8: a key whose value is an empty object contributes no key path, at any
\* depth: the document and the document without these keys have the same
\* keys, so that their comparison finds no key in one of them only, and
\* {"a": {}} has no key.
C8_EmptyObjectInvisible ==
  x_pc = "return" =>
    /\ x_keys = extract_keys(WithoutEmptyObjects(x_data), <<>>)
    /\ OnlyInFile1(x_keys, extract_keys(WithoutEmptyObjects(x_data), <<>>)) = {}
    /\ OnlyInFile2(x_keys, extract_keys(WithoutEmptyObjects(x_data), <<>>)) = {}
    /\ (\A k \in KeyNames : x_data = Dict(k :> Dict(<<>>)) => x_keys = {})

C8_Witness ==
  /\ x_pc = "return"
  /\ x_keys # {}
  /\ \E k \in DOMAIN x_data.fields :
       /\ IsDict(x_data.fields[k])
       /\ \E j \in DOMAIN x_data.fields[k].fields :
            x_data.fields[k].fields[j] = Dict(<<>>)

\* C9: an array is a leaf: the keys do not depend on the contents of the
\* arrays, every key whose value is an array yields its own dotted path, and
\* a document of one key with an array value yields that one key.
C9_ArraysAreLeaves ==
  x_pc = "return" =>
    /\ x_keys = extract_keys(ListsAsScalars(x_data), <<>>)
    /\ \A k \in KeyNames : \A l \in Leaves :
         (l.kind = "list" /\ x_data = Dict(k :> l)) => x_keys = { k }
    /\ Cardinality(x_keys) <= Cardinality(LeafPaths(x_data))

C9_Witness ==
  /\ x_pc = "return"
  /\ \E p \in ListPaths(x_data) :
       /\ Len(p) = 2
       /\ \E i \in 1..Len(x_data.fields[p[1]].fields[p[2]].items) :
            IsDict(x_data.fields[p[1]].fields[p[2]].items[i])
\* ----------------------------------------------- properties: command line
\* the console shows the message tag about file n
Printed(tag, n) ==
  \E i \in 1..Len(console) : console[i].tag = tag /\ console[i].n = n

\* load_json_file failed on file n
LoadFailed(n) == \E error \in LoadErrors : Printed(error, n)

\* the keys listed under the section header of a report, in their order
Section(lines, header) ==
  IF \E i \in 1..Len(lines) : lines[i].tag = header
    THEN LET h == CHOOSE i \in 1..Len(lines) : lines[i].tag = header
             n == Cardinality({ i \in (h + 2)..Len(lines) :
                                  \A j \in (h + 2)..i : lines[j].tag = "key" })
         IN [i \in 1..n |-> lines[h + 1 + i].key]
    ELSE <<>>

\* C2: the comparison step returns (A minus B, B minus A, A intersect B) for
\* the two key sets it is given, (empty, empty, A) when they are equal and
\* (A, empty, empty) when B is empty, and no pair of key sets ends in an error.
C2_SetComparison ==
  /\ "common_keys" \in bound =>
       /\ only_in_file1 = { k \in keys1 : k \notin keys2 }
       /\ only_in_file2 = { k \in keys2 : k \notin keys1 }
       /\ common_keys = { k \in keys1 : k \in keys2 }
       /\ keys1 = keys2 => only_in_file1 = {} /\ only_in_file2 = {} /\ common_keys = keys1
       /\ keys2 = {} => only_in_file1 = keys1 /\ only_in_file2 = {} /\ common_keys = {}
  /\ ("keys2" \in bound /\ pc # "difference") =>
       /\ "common_keys" \in bound
       /\ ~ Printed("compare_error", 0)

C2_Witness ==
  /\ "common_keys" \in bound
  /\ only_in_file1 # {}
  /\ only_in_file2 # {}
  /\ common_keys # {}

\* C3: only-in-A with common is the key set of A, only-in-B with common is
\* the key set of B, the three sets are pairwise disjoint, and the totals of
\* the report are the sizes of the two key sets.
C3_Partition ==
  "common_keys" \in bound =>
    /\ only_in_file1 \cup common_keys = extract_keys(data1, <<>>)
    /\ only_in_file2 \cup common_keys = extract_keys(data2, <<>>)
    /\ only_in_file1 \cap only_in_file2 = {}
    /\ only_in_file1 \cap common_keys = {}
    /\ only_in_file2 \cap common_keys = {}
    /\ "output_lines" \in bound =>
         /\ output_lines[5].tag = "total"
         /\ output_lines[5].n = Cardinality(extract_keys(data1, <<>>))
         /\ output_lines[6].tag = "total"
         /\ output_lines[6].n = Cardinality(extract_keys(data2, <<>>))

C3_Witness ==
  /\ "output_lines" \in bound
  /\ Cardinality(only_in_file1) = 1
  /\ Cardinality(common_keys) = 1
  /\ Cardinality(only_in_file2) = 1
  /\ output_lines[5].n = 2
  /\ output_lines[6].n = 2

\* C4: main of main_backup.py ends with exit code 0 exactly when both files
\* were loaded and compared and no key is in one file only, and with exit
\* code 1 in every other case.
C4_ExitCode ==
  (program = "main_backup" /\ pc = "exited") =>
    /\ exit_code \in {0, 1}
    /\ exit_code = 0 <=>
         /\ {"data1", "data2"} \subseteq bound
         /\ ~ LoadFailed(1) /\ ~ LoadFailed(2)
         /\ ~ Printed("not_exists", 1) /\ ~ Printed("not_exists", 2)
         /\ IsDict(data1) /\ IsDict(data2)
         /\ extract_keys(data1, <<>>) = extract_keys(data2, <<>>)

C4_Witness ==
  /\ program = "main_backup"
  /\ pc = "exited"
  /\ exit_code = 0
  /\ data1 # data2
  /\ keys1 # {}

\* C5: a failed load of an input file ends the run with a non-zero status
\* before any key is extracted, any set compared, any report rendered or
\* written; after a failure on the first file the second is never opened.
C5_LoadFailureAborts ==
  /\ \A n \in {1, 2} :
       LoadFailed(n) =>
         /\ pc = "exited"
         /\ exit_code = 1
         /\ bound \subseteq {"data1"}
         /\ output_lines = <<>>
         /\ written = <<>>
         /\ ~ \E i \in 1..Len(console) : console[i].tag \in {"title", "total", "key"}
         /\ n = 1 => (2 \notin opened /\ bound = {})
  /\ (program = "main_backup" /\ (Printed("not_exists", 1) \/ Printed("not_exists", 2))) =>
       /\ pc = "exited"
       /\ exit_code = 1
       /\ opened = {}
       /\ bound = {}

C5_Witness ==
  /\ LoadFailed(2)
  /\ "data1" \in bound
  /\ opened = {1, 2}
  /\ pc = "exited"

\* C6: every rendered report lists the keys that are in the first file only
\* and the keys that are in the second file only in sorted order.
C6_SortedListings ==
  "output_lines" \in bound =>
    /\ IsSorted(Section(output_lines, "only_in_file1"))
    /\ IsSorted(Section(output_lines, "only_in_file2"))

\* C7: when the write of the output file fails, the whole report is already
\* on the console, the failure is a warning only, and the run goes on to end
\* with the status of the comparison: 0 without differences, 1 with
\* differences.
C7_WriteFailureIsWarning ==
  Printed("warning", 0) =>
    /\ output_file
    /\ "output_lines" \in bound
    /\ console = Append(output_lines, Text("warning"))
    /\ pc \in {"status", "exited"}
    /\ pc = "exited" =>
         exit_code = (IF extract_keys(data1, <<>>) = extract_keys(data2, <<>>)
                        THEN 0 ELSE 1)

C7_Witness ==
  /\ Printed("warning", 0)
  /\ pc = "exited"
  /\ exit_code = 0
  /\ common_keys # {}

\* ------------------------------------------------------- properties: GUI
\* C10: the result controls change only in the try block of compare_files
\* and only when the comparison has returned; the window shows other results
\* only at the page update that ends the handler; a failed comparison and a
\* comparison rejected for want of two files leave the controls and the
\* results shown as they were and show a snack bar.
C10_ResultsOnlyAfterComparison ==
  [][ /\ result_controls' # result_controls =>
           /\ g_pc = "try" /\ g_pc' = "finally"
           /\ Compares(file1_path, file2_path)
           /\ result_controls' = ComparedControls(file1_path, file2_path)
           /\ snack_bar' = snack_bar
      /\ page'.result_controls # page.result_controls =>
           /\ g_pc = "finally" /\ g_pc' = "idle"
           /\ Compares(file1_path, file2_path)
           /\ page'.result_controls = result_controls
      /\ (g_pc = "try" /\ ~ Compares(file1_path, file2_path)) =>
           /\ result_controls' = result_controls
           /\ page' = page
           /\ snack_bar' = "compare_failed"
      /\ (snack_bar' # snack_bar /\ snack_bar' \in {"compare_failed", "select_two_files"}) =>
           /\ result_controls' = result_controls
           /\ page' = page
    ]_vars

C10_Witness ==
  /\ g_pc = "finally"
  /\ snack_bar = "compare_failed"
  /\ ~ Compares(file1_path, file2_path)
  /\ result_controls # <<>>
  /\ page.result_controls = result_controls

\* C11: the progress bar is hidden, in the controls and in the window,
\* whenever compare_files is not executing; a compare_files that passes the
\* guard shows it and ends by hiding it whether the comparison returned or
\* raised; a compare_files rejected by the guard, a pick, a cancelled pick
\* and a save leave it hidden.
C11_ProgressHiddenWhenIdle ==
  /\ [](g_pc = "idle" => (~ progress_visible /\ ~ page.progress_visible))
  /\ [][ /\ (g_pc = "idle" /\ g_pc' = "try") =>
              (progress_visible' /\ page'.progress_visible)
         /\ (g_pc = "try") => (progress_visible' /\ g_pc' = "finally")
         /\ (g_pc = "finally") =>
              (~ progress_visible' /\ ~ page'.progress_visible /\ g_pc' = "idle")
         /\ (g_pc = "idle" /\ (file1_path = "None" \/ file2_path = "None")) =>
              (~ progress_visible' /\ ~ page'.progress_visible /\ g_pc' = "idle")
         /\ progress_visible' # progress_visible => g_pc' # g_pc
     ]_vars

C11_Witness ==
  /\ g_pc = "idle"
  /\ snack_bar = "compare_failed"
  /\ file1_path # "None" /\ file2_path # "None"
  /\ ~ Compares(file1_path, file2_path)
  /\ ~ progress_visible
  /\ ~ page.progress_visible

\* C12: a stored path is never cleared: a path changes only by a pick that
\* returns a file, to that file, and a cancelled pick sets the label to 'not
\* selected' and leaves the path; so the guard of compare_files rejects only
\* while a file has never been picked, and a comparison or a saved report is
\* the one of the two stored paths.
C12_PathNeverCleared ==
  /\ [](/\ file1_ref.color = "GREEN" => file1_ref.value = file1_path
        /\ file2_ref.color = "GREEN" => file2_ref.value = file2_path
        /\ file1_path = "None" => file1_ref.value \in {"no_file", "not_selected"}
        /\ file2_path = "None" => file2_ref.value \in {"no_file", "not_selected"})
  /\ [][ /\ file1_path # "None" => file1_path' # "None"
         /\ file2_path # "None" => file2_path' # "None"
         /\ file1_path' # file1_path => file1_ref' = Label(file1_path', "GREEN")
         /\ file2_path' # file2_path => file2_ref' = Label(file2_path', "GREEN")
         /\ (file1_ref' # file1_ref /\ file1_ref'.value = "not_selected") =>
              file1_path' = file1_path
         /\ (file2_ref' # file2_ref /\ file2_ref'.value = "not_selected") =>
              file2_path' = file2_path
         /\ (snack_bar' # snack_bar /\ snack_bar' = "select_two_files") =>
              (file1_path = "None" \/ file2_path = "None")
         /\ (g_pc = "idle" /\ g_pc' = "try") =>
              (file1_path # "None" /\ file2_path # "None")
         /\ result_controls' # result_controls =>
              /\ result_controls' = ComparedControls(file1_path, file2_path)
              /\ result_controls'[1].names = <<file1_path, file2_path>>
         /\ saved' # saved =>
              saved' = report_lines(
                OnlyInFile1(extract_keys(disk[file1_path], <<>>),
                            extract_keys(disk[file2_path], <<>>)),
                OnlyInFile2(extract_keys(disk[file1_path], <<>>),
                            extract_keys(disk[file2_path], <<>>)),
                CommonKeys(extract_keys(disk[file1_path], <<>>),
                           extract_keys(disk[file2_path], <<>>)))
     ]_vars

C12_Witness ==
  /\ g_pc = "finally"
  /\ file1_ref.value = "not_selected"
  /\ file1_path # "None" /\ file2_path # "None"
  /\ Compares(file1_path, file2_path)
  /\ result_controls = ComparedControls(file1_path, file2_path)
  /\ result_controls[1].names = <<file1_path, file2_path>>
  /\ page.result_controls # result_controls
====
